---- MODULE Spec2Model ----
(***************************************************************************)
(* Kube_Credential: the issuance service (POST /issue), the verification   *)
(* service (POST /verify), the Storage class both use over one SQLite      *)
(* file credentials.db, and the manual insert scripts.                     *)
(*                                                                         *)
(* Both services resolve the same data directory (backend/data), so there  *)
(* is one credentials table; each service process owns its own handle.     *)
(* An awaited SQL statement executes atomically at some moment between the *)
(* call and the continuation: every such moment is one action.             *)
(***************************************************************************)
EXTENDS Integers, Sequences, FiniteSets, TLC

\* ------------------------------------------------------------------ bounds
MaxReq == 2
MaxScriptRuns == 1

\* ------------------------------------------------------- program constants
PortTries == 10

\* -------------------------------------------------------------- JSON values
Absent == "<undefined>"
NoId == "<none>"
Keys == {"id", "name", "0"}
ExplicitIds == {"X"}
UnknownIds == {"Y"}
Names == {"Jane", "John"}
UuidNames == <<"uuid-1", "uuid-2", "uuid-3", "uuid-4", "uuid-5", "uuid-6">>
ScriptDefaultId == "CRED-9123450"

\* The instants the wall clock is read at: enough to tell "at the same time" from "later".
Instants == {0, 1}

\* The offsets from the base port that another process may hold when a service starts.
BusyOffsets == {0}

NoFields == [k \in Keys |-> Absent]

\* A request body as express.json() hands it to the handler.
JNull == [t |-> "null", f |-> NoFields]
JString == [t |-> "string", f |-> NoFields]
JArray(e) == [t |-> "array", f |-> [NoFields EXCEPT !["0"] = e]]
JObject(id, name) == [t |-> "object", f |-> [NoFields EXCEPT !["id"] = id, !["name"] = name]]

\* JavaScript's typeof: null and arrays are 'object'.
TypeOf(v) == IF v.t = "string" THEN "string" ELSE "object"

\* JavaScript truthiness of a body: null is falsy (the bare strings sent are non-empty).
Truthy(v) == v.t # "null"

\* Truthiness of a property value: undefined and '' are falsy.
TruthyVal(x) == x \notin {Absent, ""}

\* index.ts 61 / verify 71: !credential || typeof credential !== 'object'
InvalidFormat(credential) == ~Truthy(credential) \/ TypeOf(credential) # "object"

\* The i-th value uuidv4() returns: random 122-bit tokens, modelled as never repeating.
UuidV4Once(n) == UuidNames[1]
UuidV4(n) == UuidNames[n]

\* { ...credential, id: credentialId }: own enumerable properties copied into a
\* plain object (an array's indices become keys), then id set.
WithIdOmitted(credential, credentialId) == [t |-> "object", f |-> credential.f]
WithIdSpreadAfter(credential, credentialId) == [t |-> "object", f |-> [k \in Keys |-> IF k = "id" /\ credential.f[k] # Absent THEN credential.f[k] ELSE IF k = "id" THEN credentialId ELSE credential.f[k]]]
WithId(credential, credentialId) == [t |-> "object", f |-> [credential.f EXCEPT !["id"] = credentialId]]

\* ------------------------------------------------------------ serialization
KeyOrder == <<"id", "name", "0">>

RECURSIVE StringifyFrom(_, _)
StringifyFrom(f, n) ==
    IF n > Len(KeyOrder) THEN <<>>
    ELSE IF f[KeyOrder[n]] = Absent THEN StringifyFrom(f, n + 1)
    ELSE <<(<<KeyOrder[n], f[KeyOrder[n]]>>)>> \o StringifyFrom(f, n + 1)

\* JSON.stringify of the stored document: properties in order, undefined ones dropped.
JSONStringify(data) == [credential |-> StringifyFrom(data.credential.f, 1), worker |-> data.worker, timestamp |-> data.timestamp]

ParseFields(pairs) == [k \in Keys |-> IF \E n \in 1..Len(pairs) : pairs[n][1] = k THEN (CHOOSE v \in {pairs[n][2] : n \in {m \in 1..Len(pairs) : pairs[m][1] = k}} : TRUE) ELSE Absent]

\* JSON.parse of a stored document.
JSONParse(text) == [credential |-> [t |-> "object", f |-> ParseFields(text.credential)], worker |-> text.worker, timestamp |-> text.timestamp]

NoData == [credential |-> [t |-> "object", f |-> NoFields], worker |-> NoId, timestamp |-> 0]

\* ---------------------------------------------------------------- SQL table
\* credentials(id TEXT PRIMARY KEY, data TEXT NOT NULL, created_at ...): created_at is
\* assigned by the engine and read by no statement of the repository; rows carry id and data.
Row(id, text) == [id |-> id, data |-> text]

HasId(tbl, id) == \E n \in 1..Len(tbl) : tbl[n].id = id

FirstWithId(tbl, id) == tbl[CHOOSE n \in 1..Len(tbl) : tbl[n].id = id /\ \A m \in 1..(n - 1) : tbl[m].id # id]

\* The PRIMARY KEY constraint of the id column: an INSERT of a present key is refused.
PrimaryKeyAlwaysAdmits(tbl, id) == TRUE
PrimaryKeyAdmits(tbl, id) == ~HasId(tbl, id)

\* INSERT INTO credentials (id, data) VALUES (?, ?): the table afterwards.
SqlInsert(tbl, id, text) == IF PrimaryKeyAdmits(tbl, id) THEN Append(tbl, Row(id, text)) ELSE tbl

\* The same INSERT when run() rejects with an I/O error: a statement is atomic, so the
\* table is as before.
SqlInsertRejectedWritten(tbl, id, text) == Append(tbl, Row(id, text))
SqlInsertRejected(tbl, id, text) == tbl

\* INSERT OR REPLACE INTO credentials (id, data) VALUES (?, ?): the conflicting row is
\* deleted, then the new one inserted.
SqlInsertOrReplace(tbl, id, text) == Append(SelectSeq(tbl, LAMBDA r : r.id # id), Row(id, text))

\* SELECT ... FROM credentials WHERE id = ?: the row found (if any) and the table afterwards.
SqlSelectByIdAnyRow(tbl, id) == [found |-> Len(tbl) > 0, row |-> IF Len(tbl) > 0 THEN tbl[1] ELSE Row(NoId, JSONStringify(NoData)), table |-> tbl]
SqlSelectByIdConsuming(tbl, id) == [found |-> HasId(tbl, id), row |-> IF HasId(tbl, id) THEN FirstWithId(tbl, id) ELSE Row(NoId, JSONStringify(NoData)), table |-> SelectSeq(tbl, LAMBDA r : r.id # id)]
SqlSelectById(tbl, id) == [found |-> HasId(tbl, id), row |-> IF HasId(tbl, id) THEN FirstWithId(tbl, id) ELSE Row(NoId, JSONStringify(NoData)), table |-> tbl]

\* SELECT id FROM credentials
SqlSelectIdsButLast(tbl) == [n \in 1..(Len(tbl) - 1) |-> tbl[n].id]
SqlSelectIds(tbl) == [n \in 1..Len(tbl) |-> tbl[n].id]

\* Storage.save after run() settles (storage.ts 60-68): it resolves, or the catch logs
\* and rethrows.
AfterSaveSwallowed(ok) == "saved"
AfterSave(ok) == IF ok THEN "saved" ELSE "saveErr"

\* Storage.exists: !!result
StorageExistsNever(tbl, id) == FALSE
StorageExists(tbl, id) == SqlSelectById(tbl, id).found

\* Storage.get: the parsed document, or null.
StorageGet(tbl, id) == LET r == SqlSelectById(tbl, id) IN [found |-> r.found, value |-> IF r.found THEN JSONParse(r.row.data) ELSE NoData, table |-> r.table]

\* ------------------------------------------------------------------- state
Svc == {"issuer", "verifier"}

\* WORKER_ID of each service process (env WORKER_ID, or a generated default).
WorkerId(s) == IF s = "issuer" THEN "worker-1" ELSE "verifier-1"

VARIABLES
    table,      \* the rows of credentials, in rowid order
    schema,     \* whether CREATE TABLE has run on the file
    svc,        \* per service process: startup position, storage handle, loop index,
                \* and the port offsets other processes held when it started
    req,        \* the requests: handler position, locals, response
    uuidCount,  \* how many tokens uuidv4() has returned
    now,        \* the wall clock as last read
    script      \* the insert script process

vars == <<table, schema, svc, req, uuidCount, now, script>>

NoOut == [status |-> NoId, credentialId |-> NoId, worker |-> NoId, timestamp |-> 0, credential |-> NoFields, count |-> 0, ids |-> <<>>]

NoReq == [op |-> "none", pc |-> "idle", body |-> JNull, credentialId |-> NoId, data |-> NoData, code |-> 0, out |-> NoOut]

Init ==
    /\ table = <<>>
    /\ schema = FALSE
    /\ svc = [s \in Svc |-> [pc |-> "opening", db |-> FALSE, i |-> 0, why |-> NoId, held |-> BusyOffsets]]
    /\ req = [n \in 1..MaxReq |-> NoReq]
    /\ uuidCount = 0
    /\ now = 0
    /\ script = [pc |-> "idle", id |-> NoId, payload |-> NoData, runs |-> 0]

\* ----------------------------------------------------------------- startup
\* storage.init() threw: init's catch rethrows (storage.ts 51-54), startWithPortFallback
\* rejects and the caller's catch ends the process (index.ts 143-146).
AfterInitErrorSwallowed(p) == [p EXCEPT !.pc = "binding", !.i = 0]
AfterInitError(p) == [p EXCEPT !.pc = "exited", !.why = "init"]

\* open() resolves: this.db is set and CREATE TABLE IF NOT EXISTS is submitted.
OpenOk(s) ==
    /\ svc[s].pc = "opening"
    /\ svc' = [svc EXCEPT ![s].db = TRUE, ![s].pc = "creating"]
    /\ UNCHANGED <<table, schema, req, uuidCount, now, script>>

\* open() rejects: the store cannot be opened.
OpenFail(s) ==
    /\ svc[s].pc = "opening"
    /\ svc' = [svc EXCEPT ![s] = AfterInitError(svc[s])]
    /\ UNCHANGED <<table, schema, req, uuidCount, now, script>>

\* CREATE TABLE IF NOT EXISTS ran: init() returns and the loop makes its first
\* app.listen(basePort + 0).
CreateOk(s) ==
    /\ svc[s].pc = "creating"
    /\ schema' = TRUE
    /\ svc' = [svc EXCEPT ![s].pc = "binding", ![s].i = 0]
    /\ UNCHANGED <<table, req, uuidCount, now, script>>

\* exec() rejects.
CreateFail(s) ==
    /\ svc[s].pc = "creating"
    /\ svc' = [svc EXCEPT ![s] = AfterInitError(svc[s])]
    /\ UNCHANGED <<table, schema, req, uuidCount, now, script>>

\* 'listening': the promise resolves and startWithPortFallback returns; its locals
\* i and tryPort are gone.
ListenOk(s) ==
    /\ svc[s].pc = "binding"
    /\ svc' = [svc EXCEPT ![s].pc = "listening", ![s].i = 0]
    /\ UNCHANGED <<table, schema, req, uuidCount, now, script>>

\* 'error' with code EADDRINUSE: continue with the next port, or give up after the
\* tenth.
ListenInUse(s, busy) ==
    /\ svc[s].pc = "binding"
    /\ svc[s].i \in busy
    /\ svc' = [svc EXCEPT ![s].i = @ + 1,
                          ![s].pc = IF svc[s].i + 1 < PortTries THEN "binding" ELSE "exited",
                          ![s].why = IF svc[s].i + 1 < PortTries THEN @ ELSE "noports"]
    /\ UNCHANGED <<table, schema, req, uuidCount, now, script>>

\* 'error' with another code: process.exit(1).
ListenErrorContinues(s) ==
    /\ svc[s].pc = "binding"
    /\ svc' = [svc EXCEPT ![s].i = @ + 1,
                          ![s].pc = IF svc[s].i + 1 < PortTries THEN "binding" ELSE "exited",
                          ![s].why = IF svc[s].i + 1 < PortTries THEN @ ELSE "noports"]
    /\ UNCHANGED <<table, schema, req, uuidCount, now, script>>
ListenError(s) ==
    /\ svc[s].pc = "binding"
    /\ svc' = [svc EXCEPT ![s].pc = "exited", ![s].why = "listen"]
    /\ UNCHANGED <<table, schema, req, uuidCount, now, script>>

\* 'listening' on a port no other process holds.
ListenFree(s) == svc[s].i \notin svc[s].held /\ ListenOk(s)

\* new Date(): the clock is monotone, so a read gives the last reading or a later instant.
DateNow(last) == {t \in Instants : t >= last}

\* ---------------------------------------------------------------- requests
\* The ids a caller can send: its own, and the generated ones it was told.
CallerIds == ExplicitIds \cup UnknownIds \cup {UuidV4(k) : k \in 1..uuidCount}

\* The generated ids a 201 has told a caller.
ToldIds == {req[n].out.credentialId : n \in {m \in 1..MaxReq : req[m].op = "issue" /\ req[m].pc = "done" /\ req[m].code = 201}} \ ExplicitIds

\* The bodies sent to POST /issue: null, a bare string, an array, and objects with
\* no id, an empty id, a caller's id, or a generated id a 201 has told.
IssueBodies ==
    {JNull, JString, JArray("Jane"), JObject(Absent, "Jane"), JObject("", "Jane")}
        \cup {JObject(id, name) : id \in ExplicitIds, name \in Names}
        \cup {JObject(id, "John") : id \in ToldIds}

\* The bodies sent to POST /verify.
VerifyBodies == {JNull, JString, JArray("Jane")} \cup {JObject(id, Absent) : id \in CallerIds \cup {Absent, ""}}

\* Requests take the slots in order.
NextSlot(n) == req[n].op = "none" /\ \A m \in 1..(n - 1) : req[m].op # "none"

Reply(r, code, out) == [r EXCEPT !.pc = "done", !.code = code, !.out = out]

\* The handler's catch (index.ts 92-95, verify 101-104): 500, and the handler ends.
CatchReplyRetrying(r) == IF r.pc = "saveErr" THEN [r EXCEPT !.pc = "save"] ELSE Reply(r, 500, NoOut)
CatchReply(r) == Reply(r, 500, NoOut)

\* The JSON a 201 carries.
IssuedOut(r, s, t) == [NoOut EXCEPT !.credentialId = r.credentialId, !.worker = WorkerId(s), !.timestamp = t]

\* The JSON a 200 of /verify carries.
ValidOut(credentialData) == [NoOut EXCEPT !.status = "valid", !.worker = credentialData.worker, !.timestamp = credentialData.timestamp, !.credential = credentialData.credential.f]

InvalidOut == [NoOut EXCEPT !.status = "invalid"]

\* POST /issue up to its first await (index.ts 59-71): validation, id resolution,
\* credentialWithId, and the SELECT of storage.exists submitted.
IssueArrive(n, body) ==
    /\ svc["issuer"].pc = "listening"
    /\ svc["issuer"].db
    /\ NextSlot(n)
    /\ IF InvalidFormat(body)
       THEN /\ req' = [req EXCEPT ![n] = Reply([NoReq EXCEPT !.op = "issue", !.body = body], 400, NoOut)]
            /\ UNCHANGED uuidCount
       ELSE LET generated == ~TruthyVal(body.f["id"])
                credentialId == IF generated THEN UuidV4(uuidCount + 1) ELSE body.f["id"]
            IN /\ req' = [req EXCEPT ![n] = [NoReq EXCEPT !.op = "issue", !.body = body, !.pc = "exists",
                                             !.credentialId = credentialId,
                                             !.data = [NoData EXCEPT !.credential = WithId(body, credentialId)]]]
               /\ uuidCount' = IF generated THEN uuidCount + 1 ELSE uuidCount
    /\ UNCHANGED <<table, schema, svc, now, script>>

\* storage.exists resolves (index.ts 71-82): 409 if the id is present, else the
\* document is built with the time read then and the INSERT of storage.save submitted.
IssueExistsDone(n) ==
    /\ req[n].op = "issue" /\ req[n].pc = "exists"
    /\ IF StorageExists(table, req[n].credentialId)
       THEN /\ req' = [req EXCEPT ![n] = Reply(@, 409, NoOut)]
            /\ UNCHANGED now
       ELSE \E t \in DateNow(now) :
                /\ now' = t
                /\ req' = [req EXCEPT ![n].pc = "save", ![n].data.worker = WorkerId("issuer"), ![n].data.timestamp = t]
    /\ UNCHANGED <<table, schema, svc, uuidCount, script>>

\* The INSERT runs (storage.ts 61-64): the row is added, or the PRIMARY KEY refuses it
\* and run() rejects with SQLITE_CONSTRAINT.
IssueSaveRun(n) ==
    /\ req[n].op = "issue" /\ req[n].pc = "save"
    /\ table' = SqlInsert(table, req[n].credentialId, JSONStringify(req[n].data))
    /\ req' = [req EXCEPT ![n].pc = AfterSave(PrimaryKeyAdmits(table, req[n].credentialId))]
    /\ UNCHANGED <<schema, svc, uuidCount, now, script>>

\* storage.save resolved (index.ts 84-91): 201.
IssueRespond(n) ==
    /\ req[n].op = "issue" /\ req[n].pc = "saved"
    /\ \E t \in DateNow(now) :
        /\ now' = t
        /\ req' = [req EXCEPT ![n] = Reply(@, 201, IssuedOut(@, "issuer", t))]
    /\ UNCHANGED <<table, schema, svc, uuidCount, script>>

\* A storage call rejected (index.ts 92-95): 500.
IssueCatch(n) ==
    /\ req[n].op = "issue" /\ req[n].pc = "saveErr"
    /\ req' = [req EXCEPT ![n] = CatchReply(@)]
    /\ UNCHANGED <<table, schema, svc, uuidCount, now, script>>

\* verify 76-77: const credentialId = credential.id; if (!credentialId)
IdMissingUnchecked(credential) == FALSE
IdMissing(credential) == ~TruthyVal(credential.f["id"])

\* POST /verify up to its await (verify 69-83): validation, and the SELECT of
\* storage.get submitted.
VerifyArrive(n, body) ==
    /\ svc["verifier"].pc = "listening"
    /\ svc["verifier"].db
    /\ NextSlot(n)
    /\ IF InvalidFormat(body) \/ IdMissing(body)
       THEN req' = [req EXCEPT ![n] = Reply([NoReq EXCEPT !.op = "verify", !.body = body], 400, NoOut)]
       ELSE req' = [req EXCEPT ![n] = [NoReq EXCEPT !.op = "verify", !.body = body, !.pc = "get", !.credentialId = body.f["id"]]]
    /\ UNCHANGED <<table, schema, svc, uuidCount, now, script>>

\* storage.get resolves (verify 83-100): 404 'invalid' for null, else 200 'valid'
\* with the stored worker, timestamp and credential.
VerifyGetDone(n) ==
    /\ req[n].op = "verify" /\ req[n].pc = "get"
    /\ LET credentialData == StorageGet(table, req[n].credentialId)
       IN /\ table' = credentialData.table
          /\ req' = [req EXCEPT ![n] = IF credentialData.found
                                        THEN Reply(@, 200, ValidOut(credentialData.value))
                                        ELSE Reply(@, 404, InvalidOut)]
    /\ UNCHANGED <<schema, svc, uuidCount, now, script>>

\* Storage.list: rows.map(r => r.id)
StorageList(tbl) == SqlSelectIds(tbl)

\* The JSON a 200 of /debug/credentials carries.
ListOut(ids) == [NoOut EXCEPT !.count = Len(ids), !.ids = ids]

\* GET /debug/credentials of service s up to its await (index.ts 44-48, verify 55-58):
\* the SELECT of storage.list submitted.
ListArrive(n, s) ==
    /\ svc[s].pc = "listening"
    /\ svc[s].db
    /\ NextSlot(n)
    /\ req' = [req EXCEPT ![n] = [NoReq EXCEPT !.op = "debug", !.pc = "list"]]
    /\ UNCHANGED <<table, schema, svc, uuidCount, now, script>>

\* storage.list resolves (index.ts 48-49): 200 with count and ids.
ListDone(n) ==
    /\ req[n].op = "debug" /\ req[n].pc = "list"
    /\ req' = [req EXCEPT ![n] = Reply(@, 200, ListOut(StorageList(table)))]
    /\ UNCHANGED <<table, schema, svc, uuidCount, now, script>>

\* The SELECT of storage.list rejects (storage.ts 77-80, index.ts 50-53): 500.
ListThrow(n) ==
    /\ req[n].op = "debug" /\ req[n].pc = "list"
    /\ req' = [req EXCEPT ![n] = Reply(@, 500, NoOut)]
    /\ UNCHANGED <<table, schema, svc, uuidCount, now, script>>

\* ------------------------------------------------------- storage I/O faults
\* The SELECT of storage.exists rejects (storage.ts 92-95).
IssueExistsThrow(n) ==
    /\ req[n].op = "issue" /\ req[n].pc = "exists"
    /\ req' = [req EXCEPT ![n] = CatchReply(@)]
    /\ UNCHANGED <<table, schema, svc, uuidCount, now, script>>

\* The INSERT rejects for a reason other than the key (storage.ts 65-68): the statement
\* is rolled back and leaves no row.
IssueSaveThrow(n) ==
    /\ req[n].op = "issue" /\ req[n].pc = "save"
    /\ table' = SqlInsertRejected(table, req[n].credentialId, JSONStringify(req[n].data))
    /\ req' = [req EXCEPT ![n].pc = AfterSave(FALSE)]
    /\ UNCHANGED <<schema, svc, uuidCount, now, script>>

\* The SELECT of storage.get rejects (storage.ts 112-115).
VerifyGetThrow(n) ==
    /\ req[n].op = "verify" /\ req[n].pc = "get"
    /\ req' = [req EXCEPT ![n] = CatchReply(@)]
    /\ UNCHANGED <<table, schema, svc, uuidCount, now, script>>

\* ------------------------------------------------------------ insert scripts
\* insert-cred.js uses the fixed id; insert-cred.cjs takes argv[2] or the same default.
ScriptIds == ExplicitIds \cup {ScriptDefaultId}

ScriptCredential(id) == [t |-> "object", f |-> [NoFields EXCEPT !["id"] = id, !["name"] = "John Doe"]]

\* The script up to its INSERT (insert-cred.cjs 28-46): the payload is built with the
\* time read then and CREATE TABLE IF NOT EXISTS runs.
ScriptBegin(id) ==
    /\ script.pc = "idle"
    /\ script.runs < MaxScriptRuns
    /\ \E t \in DateNow(now) :
        /\ now' = t
        /\ script' = [script EXCEPT !.pc = "insert", !.id = id,
                                    !.payload = [credential |-> ScriptCredential(id), worker |-> "manual-insert", timestamp |-> t]]
    /\ schema' = TRUE
    /\ UNCHANGED <<table, svc, req, uuidCount>>

\* INSERT OR REPLACE runs (insert-cred.cjs 47-49), and the script ends.
ScriptInsert ==
    /\ script.pc = "insert"
    /\ table' = SqlInsertOrReplace(table, script.id, JSONStringify(script.payload))
    /\ script' = [script EXCEPT !.pc = "idle", !.runs = @ + 1]
    /\ UNCHANGED <<schema, svc, req, uuidCount, now>>

\* ------------------------------------------------ the Storage class by itself
\* A caller that uses the exported storage object directly: init(), save, exists, get
\* and list called in any order, a call starting while earlier ones are still awaiting.
\* The object is the one of the issuer's process; a call takes a request slot.
StorageOps == {"save", "exists", "get", "list"}

\* if (!this.db) await this.init()   (storage.ts 58, 72, 84, 99)
ImplicitInitNever(db) == FALSE
ImplicitInit(db) == ~db

\* CREATE TABLE IF NOT EXISTS credentials (...): the rows afterwards.
SqlCreateTableAnew(tbl) == <<>>
SqlCreateTableIfNotExists(tbl) == tbl

\* What a storage call settles with.
Settled(r, status) == [r EXCEPT !.pc = "done", !.out = [NoOut EXCEPT !.status = status]]

\* The document a direct save stores.
DirectData(id) == [NoData EXCEPT !.credential = JObject(id, "Jane"), !.worker = "direct"]

\* The module has been loaded: the object is constructed, db is null, nothing has
\* called init() and the file does not exist yet.
InitStorage ==
    /\ table = <<>>
    /\ schema = FALSE
    /\ svc = [s \in Svc |-> [pc |-> "loaded", db |-> FALSE, i |-> 0, why |-> NoId, held |-> BusyOffsets]]
    /\ req = [n \in 1..MaxReq |-> NoReq]
    /\ uuidCount = 0
    /\ now = 0
    /\ script = [pc |-> "idle", id |-> NoId, payload |-> NoData, runs |-> 0]

\* storage.init() is called (storage.ts 11-40): up to the await of open().
CallInit(n) ==
    /\ svc["issuer"].pc = "loaded"
    /\ NextSlot(n)
    /\ req' = [req EXCEPT ![n] = [NoReq EXCEPT !.op = "init", !.pc = "open"]]
    /\ UNCHANGED <<table, schema, svc, uuidCount, now, script>>

\* save, exists, get or list is called: with no handle it awaits init() first, else
\* its statement is submitted.
CallStorage(n, op, id) ==
    /\ svc["issuer"].pc = "loaded"
    /\ NextSlot(n)
    /\ req' = [req EXCEPT ![n] = [NoReq EXCEPT !.op = op,
                                               !.pc = IF ImplicitInit(svc["issuer"].db) THEN "open" ELSE "run",
                                               !.credentialId = id,
                                               !.data = IF op = "save" THEN DirectData(id) ELSE NoData]]
    /\ UNCHANGED <<table, schema, svc, uuidCount, now, script>>

\* open() resolves (storage.ts 37-48): this.db is the new handle, and CREATE TABLE IF
\* NOT EXISTS is submitted on it.
InitOpenOk(n) ==
    /\ req[n].op \in StorageOps \cup {"init"} /\ req[n].pc = "open"
    /\ svc' = [svc EXCEPT !["issuer"].db = TRUE]
    /\ req' = [req EXCEPT ![n].pc = "create"]
    /\ UNCHANGED <<table, schema, uuidCount, now, script>>

\* open() rejects (storage.ts 51-54): init rethrows, and so does the call awaiting it.
InitOpenFail(n) ==
    /\ req[n].op \in StorageOps \cup {"init"} /\ req[n].pc = "open"
    /\ req' = [req EXCEPT ![n] = Settled(@, "error")]
    /\ UNCHANGED <<table, schema, svc, uuidCount, now, script>>

\* CREATE TABLE IF NOT EXISTS ran (storage.ts 42-50): init() returns; a call that was
\* awaiting it submits its statement on this.db.
InitCreateOk(n) ==
    /\ req[n].op \in StorageOps \cup {"init"} /\ req[n].pc = "create"
    /\ schema' = TRUE
    /\ table' = SqlCreateTableIfNotExists(table)
    /\ req' = [req EXCEPT ![n] = IF req[n].op = "init" THEN Settled(@, "ok") ELSE [@ EXCEPT !.pc = "run"]]
    /\ UNCHANGED <<svc, uuidCount, now, script>>

\* exec() rejects: init rethrows; this.db keeps the handle.
InitCreateFail(n) ==
    /\ req[n].op \in StorageOps \cup {"init"} /\ req[n].pc = "create"
    /\ req' = [req EXCEPT ![n] = Settled(@, "error")]
    /\ UNCHANGED <<table, schema, svc, uuidCount, now, script>>

\* The statement of the call runs on this.db (storage.ts 60-68, 74-80, 86-95,
\* 101-115): a null handle or a missing table is an error the call rethrows.
StatementRun(n) ==
    /\ req[n].op \in StorageOps /\ req[n].pc = "run"
    /\ IF ~svc["issuer"].db \/ ~schema
       THEN /\ req' = [req EXCEPT ![n] = Settled(@, "error")]
            /\ UNCHANGED table
       ELSE CASE req[n].op = "save" ->
                   /\ table' = SqlInsert(table, req[n].credentialId, JSONStringify(req[n].data))
                   /\ req' = [req EXCEPT ![n] = Settled(@, IF PrimaryKeyAdmits(table, req[n].credentialId) THEN "ok" ELSE "error")]
              [] req[n].op = "exists" ->
                   /\ req' = [req EXCEPT ![n] = Settled(@, IF StorageExists(table, req[n].credentialId) THEN "true" ELSE "false")]
                   /\ UNCHANGED table
              [] req[n].op = "get" ->
                   /\ req' = [req EXCEPT ![n] = IF StorageGet(table, req[n].credentialId).found
                                                    THEN [@ EXCEPT !.pc = "done", !.out = [ValidOut(StorageGet(table, req[n].credentialId).value) EXCEPT !.status = "value"]]
                                                    ELSE Settled(@, "null")]
                   /\ table' = StorageGet(table, req[n].credentialId).table
              [] req[n].op = "list" ->
                   /\ req' = [req EXCEPT ![n] = [Settled(@, "ids") EXCEPT !.out.ids = SqlSelectIds(table)]]
                   /\ UNCHANGED table
    /\ UNCHANGED <<schema, svc, uuidCount, now, script>>

\* ---------------------------------------------------------- specifications
Startup ==
    \E s \in Svc :
        \/ OpenOk(s)
        \/ OpenFail(s)
        \/ CreateOk(s)
        \/ CreateFail(s)
        \/ ListenOk(s)
        \/ ListenInUse(s, BusyOffsets)
        \/ ListenError(s)

Issue ==
    \E n \in 1..MaxReq :
        \/ NextSlot(n) /\ \E body \in IssueBodies : IssueArrive(n, body)
        \/ IssueExistsDone(n)
        \/ IssueSaveRun(n)
        \/ IssueRespond(n)
        \/ IssueCatch(n)

Verify ==
    \E n \in 1..MaxReq :
        \/ NextSlot(n) /\ \E body \in VerifyBodies : VerifyArrive(n, body)
        \/ VerifyGetDone(n)

Faults ==
    \E n \in 1..MaxReq :
        \/ IssueExistsThrow(n)
        \/ IssueSaveThrow(n)
        \/ VerifyGetThrow(n)

Scripts ==
    \/ \E id \in ScriptIds : ScriptBegin(id)
    \/ ScriptInsert

\* The two services in normal operation.
Next == Startup \/ Issue \/ Verify

Spec == Init /\ [][Next]_vars

\* The services with storage calls that may reject.
NextIO == Next \/ Faults

SpecIO == Init /\ [][NextIO]_vars

\* Both services started (init done, listening on the base port) and no request yet.
InitServing ==
    /\ table = <<>>
    /\ schema = TRUE
    /\ svc = [s \in Svc |-> [pc |-> "listening", db |-> TRUE, i |-> 0, why |-> NoId, held |-> BusyOffsets]]
    /\ req = [n \in 1..MaxReq |-> NoReq]
    /\ uuidCount = 0
    /\ now = 0
    /\ script = [pc |-> "idle", id |-> NoId, payload |-> NoData, runs |-> 0]

\* The requests of two started services, with storage calls that may reject.
NextServingIO == Issue \/ Verify \/ Faults

SpecServingIO == InitServing /\ [][NextServingIO]_vars

\* The calls of the Storage class.
StorageCalls ==
    \E n \in 1..MaxReq :
        \/ CallInit(n)
        \/ \E op \in StorageOps, id \in ExplicitIds \cup UnknownIds : CallStorage(n, op, id)
        \/ InitOpenOk(n)
        \/ InitOpenFail(n)
        \/ InitCreateOk(n)
        \/ InitCreateFail(n)
        \/ StatementRun(n)

SpecStorage == InitStorage /\ [][StorageCalls]_vars

\* The continuations of the requests in flight: a submitted statement settles and the
\* event loop runs the handler from its await.
Continue ==
    \E n \in 1..MaxReq :
        \/ IssueExistsDone(n) \/ IssueExistsThrow(n)
        \/ IssueSaveRun(n) \/ IssueSaveThrow(n)
        \/ IssueRespond(n) \/ IssueCatch(n)
        \/ VerifyGetDone(n) \/ VerifyGetThrow(n)

\* The same, with every statement settling and every continuation run.
SpecServingLive == InitServing /\ [][NextServingIO]_vars /\ WF_vars(Continue)

\* The diagnostic endpoint of either service.
List ==
    \E n \in 1..MaxReq :
        \/ NextSlot(n) /\ \E s \in Svc : ListArrive(n, s)
        \/ ListDone(n)
        \/ ListThrow(n)

\* The requests of two started services, the diagnostic ones included.
NextList == Issue \/ Verify \/ List

SpecList == InitServing /\ [][NextList]_vars

\* One service process is launched, with any of the ten ports of its range held by
\* other processes for as long as it starts; the other service is not running.
InitPorts ==
    /\ table = <<>>
    /\ schema = FALSE
    /\ \E launched \in Svc, held \in SUBSET (0..(PortTries - 1)) :
          svc = [s \in Svc |-> IF s = launched
                               THEN [pc |-> "opening", db |-> FALSE, i |-> 0, why |-> NoId, held |-> held]
                               ELSE [pc |-> "loaded", db |-> FALSE, i |-> 0, why |-> NoId, held |-> {}]]
    /\ req = [n \in 1..MaxReq |-> NoReq]
    /\ uuidCount = 0
    /\ now = 0
    /\ script = [pc |-> "idle", id |-> NoId, payload |-> NoData, runs |-> 0]

\* startWithPortFallback with the held ports answering EADDRINUSE and the others
\* 'listening' or another error.
StartupPorts ==
    \E s \in Svc :
        \/ OpenOk(s)
        \/ OpenFail(s)
        \/ CreateOk(s)
        \/ CreateFail(s)
        \/ ListenFree(s)
        \/ ListenInUse(s, svc[s].held)
        \/ ListenError(s)

\* Every awaited open, exec and listen settles.
SpecPorts == InitPorts /\ [][StartupPorts]_vars /\ WF_vars(StartupPorts)

\* The services with a storage.get that may reject.
NextGetIO == Next \/ \E n \in 1..MaxReq : VerifyGetThrow(n)

SpecGetIO == Init /\ [][NextGetIO]_vars

\* The services and the insert scripts on the same file.
NextScripts == Next \/ Scripts

SpecScripts == Init /\ [][NextScripts]_vars

\* ------------------------------------------------------------------ claims
IsIssue(n) == req[n].op = "issue"
IsVerify(n) == req[n].op = "verify"
Done(n, code) == req[n].pc = "done" /\ req[n].code = code
Slots == 1..MaxReq

\* The row stored under id.
Stored(tbl, id) == FirstWithId(tbl, id)

\* The parts of C1.
C1_AtMostOneSuccess == \A m, n \in Slots : (m # n /\ IsIssue(m) /\ IsIssue(n) /\ Done(m, 201) /\ Done(n, 201)) => req[m].credentialId # req[n].credentialId
C1_RecordKept == \A m \in Slots : (IsIssue(m) /\ Done(m, 201)) => (HasId(table, req[m].credentialId) /\ Stored(table, req[m].credentialId).data = JSONStringify(req[m].data))
C1_Issued(id) == \E m \in Slots : IsIssue(m) /\ Done(m, 201) /\ req[m].credentialId = id
C1_LaterConflicts ==
    \A n \in Slots :
        /\ (req[n].op = "none" /\ req'[n].op = "issue" /\ req'[n].body.t = "object" /\ C1_Issued(req'[n].body.f["id"]))
           => (req'[n].pc = "exists" /\ req'[n].credentialId = req'[n].body.f["id"] /\ table' = table)
        /\ (IsIssue(n) /\ req[n].pc = "exists" /\ C1_Issued(req[n].credentialId) /\ req'[n] # req[n])
           => (req'[n].pc = "done" /\ req'[n].code = 409 /\ table' = table)

\* C1: at most one issuance per credential id ever gets 201; an issuance whose exists
\* check runs after a 201 for its id gets 409 and changes no row; the record of a 201
\* stays as that issuance wrote it (payload, worker, timestamp).
C1_Uniqueness == [][C1_AtMostOneSuccess' /\ C1_RecordKept' /\ C1_LaterConflicts]_vars

C1_Witness == \E m, n \in Slots : /\ m # n /\ IsIssue(m) /\ IsIssue(n) /\ Done(m, 201) /\ Done(n, 409)
                                  /\ req[m].credentialId = req[n].credentialId
                                  /\ req[m].body # req[n].body
                                  /\ Stored(table, req[m].credentialId).data = JSONStringify(req[m].data)

\* C2: two issue requests with the same explicit id end as one 201 and one 409,
\* whatever the interleaving.
C2_OneSuccessOneConflict ==
    \A m, n \in Slots :
        (/\ m # n /\ IsIssue(m) /\ IsIssue(n)
         /\ TruthyVal(req[m].body.f["id"]) /\ req[m].body.f["id"] = req[n].body.f["id"]
         /\ req[m].body.t = "object" /\ req[n].body.t = "object"
         /\ req[m].pc = "done" /\ req[n].pc = "done")
        => {req[m].code, req[n].code} = {201, 409}

\* The step of C3: storage.get resolving for a verify of an id a 201 returned.
C3_RoundTripStep ==
    \A v, i \in Slots :
        /\ (/\ req[v].op = "none" /\ req'[v].op = "verify" /\ req'[v].body.t = "object"
            /\ IsIssue(i) /\ Done(i, 201)
            /\ req'[v].body.f["id"] = req[i].out.credentialId)
           => req'[v].pc = "get"
        /\ (/\ IsVerify(v) /\ req[v].pc = "get" /\ req'[v].pc = "done"
            /\ IsIssue(i) /\ Done(i, 201)
            /\ req[v].body.f["id"] = req[i].out.credentialId)
           => (/\ req'[v].code = 200
               /\ req'[v].out.status = "valid"
               /\ req'[v].out.credential["id"] = req[i].out.credentialId
               /\ \A k \in Keys \ {"id"} : req'[v].out.credential[k] = req[i].body.f[k])

\* C3: a verify of the id a 201 returned answers 200 'valid' with the issued payload's
\* properties (unchanged) and the returned id, for a caller's id and a generated one.
C3_RoundTrip == [][C3_RoundTripStep]_vars

C3_Witness == \E v, i \in Slots : /\ IsVerify(v) /\ Done(v, 200) /\ IsIssue(i) /\ Done(i, 201)
                                  /\ req[i].body.f["id"] = ""
                                  /\ req[v].body.f["id"] = req[i].out.credentialId
                                  /\ req[v].out.credential["name"] = req[i].body.f["name"]

\* C4: a request whose body is not an object (null, a bare string, an array) ends in
\* 400, and no row is written for it.
C4_NonObjectRejected ==
    \A n \in Slots :
        (req[n].op # "none" /\ req[n].body.t # "object")
        => (/\ req[n].pc = "done" => req[n].code = 400
            /\ req[n].pc = "done" => ~HasId(table, req[n].credentialId))

\* The parts of C5.
C5_NoDuplicateId == \A a, b \in 1..Len(table) : a # b => table[a].id # table[b].id
C5_SaveRefused ==
    \A n \in Slots :
        (IsIssue(n) /\ req[n].pc = "save" /\ HasId(table, req[n].credentialId) /\ req'[n] # req[n])
        => (req'[n].pc = "saveErr" /\ table' = table)

\* C5: no two rows share an id, and an INSERT for a present id is refused with an
\* error and changes no row, under every interleaving of saves.
C5_InsertOrFail == [][C5_NoDuplicateId' /\ C5_SaveRefused]_vars

C5_Witness == \E m, n \in Slots : /\ IsIssue(n) /\ req[n].pc = "saveErr" /\ IsIssue(m) /\ Done(m, 201)
                                  /\ req[m].credentialId = req[n].credentialId
                                  /\ req[m].data # req[n].data
                                  /\ Stored(table, req[n].credentialId).data = JSONStringify(req[m].data)

\* Every row of the table is still there, unchanged, after the step.
C6_RowsKept == \A k \in 1..Len(table) : Len(table') >= k /\ table'[k] = table[k]

\* C6: no step (of a service or of an insert script) changes or removes a stored row.
C6_AppendOnly == [][C6_RowsKept]_vars

\* The parts of C7: no issuance of id has stored a row.
C7_NeverIssued(id) == \A i \in Slots : (IsIssue(i) /\ req[i].credentialId = id) => ~(req[i].pc = "saved" \/ Done(i, 201))
C7_UnknownStep ==
    \A v \in Slots :
        (IsVerify(v) /\ req[v].pc = "get" /\ req'[v].pc = "done" /\ C7_NeverIssued(req[v].credentialId))
        => (req'[v].code = 404 /\ req'[v].out = InvalidOut)

\* C7: a verify of an id no issuance has stored answers 404 'invalid' (not 500) and
\* carries no credential of another record.
C7_UnknownIdNotFound == [][C7_UnknownStep]_vars

C7_Witness == \E v \in Slots : IsVerify(v) /\ Done(v, 404) /\ req[v].out.status = "invalid" /\ Len(table) > 0

\* A step of a verify request.
C8_VerifyStep == \A v \in Slots : (req'[v] # req[v] /\ req'[v].op = "verify") => table' = table

\* C8: every step of a verify request, whatever its outcome (200, 404, 400, 500),
\* leaves the table as it was.
C8_VerifyPureRead == [][C8_VerifyStep]_vars

C8_Witness == \E v \in Slots : IsVerify(v) /\ Done(v, 200) /\ Len(table) > 0

\* The issue requests that got 201 or are about to (their INSERT ran).
C9_Successes == {n \in Slots : IsIssue(n) /\ (req[n].pc = "saved" \/ Done(n, 201))}

\* C9: the rows in the table are as many as the issue requests that got 201 or are
\* about to; a request ending 400, 409 or 500 added none. (It holds under SpecIO too.)
C9_OneRowPerSuccess == Len(table) = Cardinality(C9_Successes)

C9_Witness == /\ \E n \in Slots : IsIssue(n) /\ Done(n, 201)
              /\ \E n \in Slots : IsIssue(n) /\ Done(n, 500)
              /\ Len(table) = 1

\* Request n is one that service s handles.
C10_Handles(s, n) == (s = "issuer" /\ IsIssue(n)) \/ (s = "verifier" /\ IsVerify(n))

\* C10: a service listens, and handles requests, only with its storage handle open and
\* the table created; a service whose init failed has exited and handled no request.
C10_StartupGating ==
    \A s \in Svc :
        /\ svc[s].pc \in {"binding", "listening"} => (svc[s].db /\ schema)
        /\ (\E n \in Slots : C10_Handles(s, n)) => (svc[s].pc = "listening" /\ svc[s].db /\ schema)
        /\ svc[s].why = "init" => (svc[s].pc = "exited" /\ ~\E n \in Slots : C10_Handles(s, n))

C10_Witness == /\ svc["verifier"].why = "init"
               /\ svc["issuer"].pc = "listening"
               /\ \E n \in Slots : IsIssue(n) /\ Done(n, 201)

\* C11: the worker and timestamp a 201 returns are the worker and timestamp stored in
\* the record of its id, and the ones every 200 of a verify of that id returns.
C11_MetadataConsistent ==
    \A i \in Slots :
        (IsIssue(i) /\ Done(i, 201))
        => (/\ HasId(table, req[i].credentialId)
            /\ LET persisted == JSONParse(Stored(table, req[i].credentialId).data)
               IN /\ req[i].out.worker = persisted.worker
                  /\ req[i].out.timestamp = persisted.timestamp
            /\ \A v \in Slots :
                (IsVerify(v) /\ Done(v, 200) /\ req[v].credentialId = req[i].credentialId)
                => (/\ req[v].out.worker = req[i].out.worker
                    /\ req[v].out.timestamp = req[i].out.timestamp))

\* A step of request n that is not its INSERT succeeding.
C12_NoWrite(n) == (req'[n] # req[n] /\ req'[n].pc # "saved") => table' = table

\* The outcomes of a storage call: its result, or 500.
C12_Outcomes(n) ==
    /\ (IsIssue(n) /\ req[n].pc = "exists" /\ req'[n] # req[n])
       => \/ req'[n].pc = "save"
          \/ req'[n].pc = "done" /\ req'[n].code = 409 /\ HasId(table, req[n].credentialId)
          \/ req'[n].pc = "done" /\ req'[n].code = 500 /\ req'[n].out = NoOut
    /\ (IsIssue(n) /\ req[n].pc = "save" /\ req'[n] # req[n])
       => \/ req'[n].pc = "saved" /\ table' = Append(table, Row(req[n].credentialId, JSONStringify(req[n].data)))
          \/ req'[n].pc = "saveErr"
    /\ (IsIssue(n) /\ req[n].pc = "saveErr" /\ req'[n] # req[n])
       => (req'[n].pc = "done" /\ req'[n].code = 500 /\ req'[n].out = NoOut)
    /\ (IsIssue(n) /\ req[n].pc = "saved" /\ req'[n] # req[n])
       => (req'[n].pc = "done" /\ req'[n].code = 201)
    /\ (IsVerify(n) /\ req[n].pc = "get" /\ req'[n] # req[n])
       => (req'[n].pc = "done" /\ req'[n].code \in {200, 404, 500})

\* A request that got 500 went through no successful INSERT: the rows are those of the
\* requests whose INSERT succeeded.
C12_NoPartialState == Len(table) = Cardinality({n \in Slots : IsIssue(n) /\ (req[n].pc = "saved" \/ Done(n, 201))})

\* C12: a request whose storage call (exists, save, get) rejects ends in 500 with no
\* data in the response, and no step of it changed the table: only a successful INSERT
\* writes, and a request whose INSERT succeeded gets 201.
C12_AllOrNothing == [][C12_NoPartialState' /\ \A n \in Slots : C12_NoWrite(n) /\ C12_Outcomes(n)]_vars

C12_Witness ==
    /\ \E n \in Slots : IsIssue(n) /\ Done(n, 500) /\ ~HasId(table, req[n].credentialId)
    /\ \E v \in Slots : IsVerify(v) /\ Done(v, 500)

\* Some init() has returned: CREATE TABLE IF NOT EXISTS has run.
C13_InitCompleted == schema

\* An init step of call n: open() or CREATE TABLE settling.
C13_InitStep(n) == req[n].pc \in {"open", "create"} /\ req'[n] # req[n]

\* The statement of call n running.
C13_RunStep(n) == req[n].pc = "run" /\ req'[n] # req[n]

\* What the statement of call n does on the table as it is.
C13_OnTable(n) ==
    /\ req[n].op = "save" => /\ table' = SqlInsert(table, req[n].credentialId, JSONStringify(DirectData(req[n].credentialId)))
                             /\ req'[n].out.status = IF HasId(table, req[n].credentialId) THEN "error" ELSE "ok"
    /\ req[n].op = "exists" => req'[n].out.status = IF HasId(table, req[n].credentialId) THEN "true" ELSE "false"
    /\ req[n].op = "get" => req'[n].out.status = IF HasId(table, req[n].credentialId) THEN "value" ELSE "null"
    /\ req[n].op = "list" => req'[n].out.ids = SqlSelectIds(table)
    /\ req[n].op # "save" => table' = table

\* C13: no step of an init(), explicit or awaited by another call, first or repeated,
\* alone or concurrent with others, changes a stored row; a call made with no handle
\* awaits init() before its statement; and once an init() has returned, the handle
\* stays open and every statement runs on the table with its rows.
C13_InitIdempotent ==
    [][/\ \A n \in Slots : C13_InitStep(n) => table' = table
       /\ \A n \in Slots : (req[n].op = "none" /\ req'[n].op \in StorageOps /\ ~svc["issuer"].db) => req'[n].pc = "open"
       /\ C13_InitCompleted => (svc["issuer"].db /\ svc'["issuer"].db /\ C13_InitCompleted')
       /\ \A n \in Slots : (C13_InitCompleted /\ C13_RunStep(n)) => C13_OnTable(n)]_vars

\* A save that awaited the first init() has stored its row, and a second, explicit
\* init() has opened another handle and is about to run CREATE TABLE on the file.
C13_Witness ==
    /\ Len(table) > 0
    /\ svc["issuer"].db
    /\ \E m, n \in Slots : /\ m < n
                           /\ req[m].op = "save" /\ req[m].pc = "done" /\ req[m].out.status = "ok"
                           /\ req[n].op = "init" /\ req[n].pc = "create"

\* The handler positions in the order the code passes them.
C14_Rank(r) ==
    CASE r.op = "none" -> 0
      [] r.pc = "exists" -> 1
      [] r.pc = "get" -> 1
      [] r.pc = "save" -> 2
      [] r.pc \in {"saved", "saveErr"} -> 3
      [] r.pc = "done" -> 4

\* The outcomes a caller can see.
C14_Codes == {200, 201, 400, 404, 409, 500}

\* A step of request n moves it forward (so exists, save and get are each called at
\* most once), an answered request is never answered again, and an answer has one of the
\* outcomes.
C14_OneAnswer ==
    \A n \in Slots :
        /\ req'[n] # req[n] => C14_Rank(req'[n]) > C14_Rank(req[n])
        /\ req[n].pc = "done" => req'[n] = req[n]
        /\ req'[n].pc = "done" => req'[n].code \in C14_Codes
        /\ (req'[n].pc = "done" /\ req'[n].op = "issue") => req'[n].code \in {201, 400, 409, 500}
        /\ (req'[n].pc = "done" /\ req'[n].op = "verify") => req'[n].code \in {200, 400, 404, 500}

\* C14: every request that arrived is eventually answered (from some moment on, each
\* request that ever arrived has its answer), with exactly one outcome
\* (201/200, 400, 404, 409 or 500), and without a retry: an issue request calls exists
\* and save at most once, a verify request calls get at most once.
C14_OneOutcome ==
    /\ <>[](\A n \in Slots : req[n].op # "none" => (req[n].pc = "done" /\ req[n].code \in C14_Codes))
    /\ [][C14_OneAnswer]_vars

\* The refused INSERT of a concurrent duplicate was answered 500, not retried.
C14_Witness ==
    \E m, n \in Slots : /\ m # n /\ IsIssue(m) /\ Done(m, 201) /\ IsIssue(n) /\ Done(n, 500)
                        /\ req[m].credentialId = req[n].credentialId

\* A body that fails validation: not an object for typeof, or null; for /verify also an
\* object (or array) with no id or an empty one.
C15_Invalid(op, body) ==
    \/ body.t \in {"null", "string"}
    \/ op = "verify" /\ body.f["id"] \in {Absent, ""}

\* The step that answers request n with 400.
C15_Rejected(n) == req'[n] # req[n] /\ req'[n].pc = "done" /\ req'[n].code = 400

\* C15: a request answered 400 is answered in the step it arrives in, before any call
\* of exists, get or save and with the table untouched; and every request whose body
\* fails validation (a verify body that is an object with no id or an empty id
\* included) is answered so.
C15_ValidationFirst ==
    [][\A n \in Slots :
        /\ C15_Rejected(n) => (req[n].op = "none" /\ req[n].pc = "idle" /\ table' = table /\ C15_Invalid(req'[n].op, req'[n].body))
        /\ (req[n].op = "none" /\ req'[n].op \in {"issue", "verify"} /\ C15_Invalid(req'[n].op, req'[n].body)) => C15_Rejected(n)]_vars

C15_Witness ==
    /\ Len(table) > 0
    /\ \E v \in Slots : IsVerify(v) /\ Done(v, 400) /\ req[v].body.t = "object" /\ req[v].body.f["id"] = ""

\* C16: every stored row's document carries, in its credential, an id equal to the key
\* of the row, for a caller's id and for a generated one. (It holds under SpecScripts
\* too: the insert scripts write the id they store under into their credential.)
C16_SelfDescribing == \A k \in 1..Len(table) : JSONParse(table[k].data).credential.f["id"] = table[k].id

\* Rows for a generated id (the caller's was empty) and for a caller's id.
C16_Witness ==
    /\ \E i \in Slots : IsIssue(i) /\ Done(i, 201) /\ req[i].body.f["id"] = "" /\ HasId(table, req[i].credentialId)
    /\ \E i \in Slots : IsIssue(i) /\ Done(i, 201) /\ req[i].body.f["id"] \in ExplicitIds /\ HasId(table, req[i].credentialId)

\* The issue requests whose payload carries no id (or an empty one): the service
\* generated theirs.
C17_Generated == {n \in Slots : IsIssue(n) /\ ~InvalidFormat(req[n].body) /\ ~TruthyVal(req[n].body.f["id"])}

\* C17: the N issue requests without an id have N pairwise distinct generated ids, none
\* of them a caller's explicit id; each one that is answered got 201 with its id, and
\* each has its own stored row, however they interleave with each other and with
\* issuances of explicit ids.
C17_GeneratedDistinct ==
    /\ \A m, n \in C17_Generated : m # n => req[m].credentialId # req[n].credentialId
    /\ \A n \in C17_Generated :
        /\ req[n].credentialId \notin ExplicitIds \cup {NoId, Absent, ""}
        /\ req[n].pc = "done" => (/\ req[n].code = 201
                                  /\ req[n].out.credentialId = req[n].credentialId
                                  /\ HasId(table, req[n].credentialId))
    /\ Len(table) >= Cardinality({n \in C17_Generated : req[n].pc = "done"})

C17_Witness ==
    /\ \E m, n \in C17_Generated : m # n /\ Done(m, 201) /\ Done(n, 201) /\ req[m].body = req[n].body
    /\ Len(table) = 2

\* The ids that have a stored row.
C18_StoredIds(tbl) == {tbl[k].id : k \in 1..Len(tbl)}

\* The answer of a diagnostic request as its SELECT settles.
C18_ListStep ==
    \A n \in Slots :
        (req[n].op = "debug" /\ req[n].pc = "list" /\ req'[n] # req[n])
        => /\ req'[n].pc = "done" /\ req'[n].code \in {200, 500} /\ table' = table
           /\ req'[n].code = 200
              => LET ids == req'[n].out.ids
                 IN /\ {ids[k] : k \in 1..Len(ids)} = C18_StoredIds(table)
                    /\ \A j, k \in 1..Len(ids) : j # k => ids[j] # ids[k]
                    /\ req'[n].out.count = Cardinality(C18_StoredIds(table))
                    /\ req'[n].out.count = Len(ids)
           /\ req'[n].code = 500 => req'[n].out = NoOut

\* C18: whatever issue and verify requests ran before or are in flight, a 200 of the
\* diagnostic endpoint lists exactly the ids that have a stored row, each once, and
\* count is their number; the only other answer is the 500 of a rejecting SELECT.
C18_ListExact == [][C18_ListStep]_vars

C18_Witness ==
    \E n \in Slots : /\ req[n].op = "debug" /\ Done(n, 200)
                     /\ req[n].out.count = 1 /\ req[n].out.ids = <<"X">>
                     /\ \E m \in Slots : IsIssue(m) /\ Done(m, 201) /\ req[m].credentialId = "X"

\* The ports base+0 .. base+(i-1) are held by other processes.
C19_AllHeldBelow(s, i) == \A j \in 0..(i - 1) : j \in svc[s].held

\* A step of startWithPortFallback in the port loop of service s.
C19_PortStep(s) ==
    /\ svc[s].pc = "binding" => svc[s].i \in 0..(PortTries - 1) /\ C19_AllHeldBelow(s, svc[s].i)
    /\ (svc[s].pc = "binding" /\ svc'[s].pc = "binding" /\ svc'[s] # svc[s])
       => (svc'[s].i = svc[s].i + 1 /\ svc[s].i \in svc[s].held)
    /\ (svc[s].pc = "binding" /\ svc'[s].pc = "listening")
       => (svc[s].i \notin svc[s].held /\ C19_AllHeldBelow(s, svc[s].i))
    /\ (svc[s].pc = "binding" /\ svc'[s].pc = "exited")
       => \/ svc'[s].why = "listen" /\ svc'[s].i = svc[s].i
          \/ /\ svc'[s].why = "noports" /\ svc[s].i = PortTries - 1 /\ svc'[s].i = PortTries
             /\ svc[s].held = 0..(PortTries - 1)
    /\ svc[s].pc \in {"listening", "exited"} => svc'[s] = svc[s]
    /\ svc'[s].pc \notin {"opening", "creating", "binding", "listening", "exited"} => svc'[s] = svc[s]

\* C19: the loop tries base+0, base+1, ... in order, at most ten ports; it moves on only
\* after EADDRINUSE; it ends listening on the lowest port of the range that no other
\* process holds, or the process exits: at the first other listen error, or when all ten
\* ports are held. A launched service always ends listening or exited.
C19_PortFallback ==
    /\ [][\A s \in Svc : C19_PortStep(s)]_vars
    /\ <>[](\A s \in Svc : svc[s].pc \in {"loaded", "listening", "exited"})

\* Listening on base+3 with base+0 .. base+2 held, and ports above it held too.
C19_Witness ==
    \E s \in Svc : svc[s].pc = "listening" /\ svc[s].held = {0, 1, 2, 5}

====
